---- MODULE Spec2Model ----
(***************************************************************************)
(* A model of scoped_context/__init__.py: the ScopedContext mixin, its     *)
(* per-class thread-local LIFO stacks, the class-wide thread-local stack,  *)
(* and the module-level functions get_current_context / get_context_stack. *)
(***************************************************************************)
EXTENDS Integers, Sequences, FiniteSets, TLC

\* Bound on the number of entries held by all class-wide stacks together.
MaxActive == 3

Threads == {"t1", "t2"}

\* Cooperative tasks, coroutines that one event loop runs on one thread and
\* switches between where they await.
Tasks == {"k1", "k2"}

\* Whatever executes calls into the library: a thread, or a task.
Units == Threads \cup Tasks

\* The thread a unit runs on: the loop of the tasks runs on thread t1.
OSThread(u) == IF u \in Tasks THEN "t1" ELSE u

\* The class hierarchy: A and C subclass ScopedContext, B subclasses A.
Classes == {"ScopedContext", "A", "B", "C"}

Parent(c) == IF c = "B" THEN "A" ELSE "ScopedContext"

\* The context instances and their concrete classes (type(x)).
Contexts == {"a1", "a2", "b1", "c1", "s1"}

TypeOf(x) ==
    CASE x \in {"a1", "a2"} -> "A"
      [] x = "b1" -> "B"
      [] x = "c1" -> "C"
      [] OTHER -> "ScopedContext"

\* Marks a threading.local() object that has no "stack" attribute yet.
NoStack == "NoStack"

\* Python's None as a returned value.
None == "None"

\* class_or_tuple left at its default None.
NoFilter == {None}

\* class_or_tuple: None, or a class / tuple of classes (the set of its members).
Filters == {NoFilter} \cup SUBSET Classes

VARIABLES
    stack,      \* stack[k][c]: cls._thread_local.stack of class c, in storage k
    classwide,  \* classwide[k]: ScopedContext._thread_local_classwide.stack
    scopes,     \* scopes[t]: the with-blocks open on thread t, innermost last
    entered,    \* entered[t][x]: direct __enter__ calls of x on t not yet exited
    exc,        \* exc[t]: the exception in flight on thread t, or "none"
    ret,        \* outcome of the last call made into the library
    snap        \* the list object a caller got from a stack accessor

vars == <<stack, classwide, scopes, entered, exc, ret, snap>>

----------------------------------------------------------------------------
\* Outcomes of a call.

Returned(v) == [kind |-> "return", val |-> v]

Raised(e) == [kind |-> "raise", val |-> e]

\* __init_subclass__ gives every subclass, at any depth, a threading.local of
\* its own; ScopedContext itself only has the annotation, no attribute.
HasThreadLocal(c) == c # "ScopedContext"

StackClasses == {c \in Classes : HasThreadLocal(c)}

\* Mutant of thread_local: one storage for the whole process.
process_global(t) == "t1"

\* Mutant of thread_local: storage kept per task, as a context variable is.
task_local(t) == t

\* threading.local resolves attributes in the storage of the calling thread,
\* whichever task the thread is running.
thread_local(t) == OSThread(t)

RECURSIVE issubclass(_, _)
issubclass(c, d) ==
    IF c = d THEN TRUE
    ELSE IF c = "ScopedContext" THEN FALSE
    ELSE issubclass(Parent(c), d)

\* Mutant of isinstance: type(item) in class_or_tuple.
type_in(x, F) == TypeOf(x) \in F

\* isinstance(item, class_or_tuple)
isinstance(x, F) == \E d \in F : issubclass(TypeOf(x), d)

\* Mutant of put: the entry inserted at the head of the list.
put_front(q, x) == <<x>> \o q

\* queue.LifoQueue: _put appends to the list, _get pops from its end.
put(q, x) == Append(q, x)

\* Mutant of get: queue.Queue._get, which pops the oldest entry.
get_fifo(q) == SubSeq(q, 2, Len(q))

get(q) == SubSeq(q, 1, Len(q) - 1)

\* cls._stack(): the per-class storage after the hasattr test.
_stack(st, t, c) ==
    IF st[thread_local(t)][c] = NoStack
    THEN [st EXCEPT ![thread_local(t)][c] = <<>>]
    ELSE st

\* cls._classwide_stack(): likewise for the class-wide storage.
_classwide_stack(cw, t) ==
    IF cw[thread_local(t)] = NoStack
    THEN [cw EXCEPT ![thread_local(t)] = <<>>]
    ELSE cw

\* The list held by a stack (empty when the stack is not created yet).
Queue(s) == IF s = NoStack THEN <<>> ELSE s

Active == Len(Queue(classwide["t1"])) + Len(Queue(classwide["t2"]))

----------------------------------------------------------------------------
\* The methods as state transformers: the storage they leave and the outcome.

Outcome(st, cw, o) == [stack |-> st, classwide |-> cw, out |-> o]

\* Mutant of EnterResult: __enter__ without its "return self".
EnterResultNone(st, cw, t, x) ==
    LET c == TypeOf(x) IN
    IF ~HasThreadLocal(c)
    THEN Outcome(st, cw, Raised("AttributeError"))
    ELSE LET st1 == _stack(st, t, c)
             st2 == [st1 EXCEPT ![thread_local(t)][c] = put(@, x)]
             cw1 == _classwide_stack(cw, t)
             cw2 == [cw1 EXCEPT ![thread_local(t)] = put(@, x)]
         IN Outcome(st2, cw2, Returned(None))

\* Mutant of EnterResult: __enter__ refusing a context that is on the stack
\* of its class already.
EnterResultOnce(st, cw, t, x) ==
    LET c == TypeOf(x) IN
    IF ~HasThreadLocal(c)
    THEN Outcome(st, cw, Raised("AttributeError"))
    ELSE LET st1 == _stack(st, t, c)
             q == st1[thread_local(t)][c]
         IN IF \E i \in 1..Len(q) : q[i] = x
            THEN Outcome(st1, cw, Raised("RuntimeError"))
            ELSE LET st2 == [st1 EXCEPT ![thread_local(t)][c] = put(@, x)]
                     cw1 == _classwide_stack(cw, t)
                     cw2 == [cw1 EXCEPT ![thread_local(t)] = put(@, x)]
                 IN Outcome(st2, cw2, Returned(x))

\* Mutant of EnterResult: the two put calls of __enter__ in the other order,
\* the class-wide stack first.
EnterResultClasswideFirst(st, cw, t, x) ==
    LET c == TypeOf(x)
        cw1 == _classwide_stack(cw, t)
        cw2 == [cw1 EXCEPT ![thread_local(t)] = put(@, x)]
    IN IF ~HasThreadLocal(c)
       THEN Outcome(st, cw2, Raised("AttributeError"))
       ELSE LET st1 == _stack(st, t, c)
                st2 == [st1 EXCEPT ![thread_local(t)][c] = put(@, x)]
            IN Outcome(st2, cw2, Returned(x))

\* Mutant of EnterResult: a subclass of a context class pushing onto the
\* stack of its parent too (one _thread_local inherited down the hierarchy).
EnterResultInherited(st, cw, t, x) ==
    LET c == TypeOf(x) IN
    IF ~HasThreadLocal(c)
    THEN Outcome(st, cw, Raised("AttributeError"))
    ELSE LET st1 == _stack(st, t, c)
             st2 == [st1 EXCEPT ![thread_local(t)][c] = put(@, x)]
             st3 == IF HasThreadLocal(Parent(c))
                    THEN [_stack(st2, t, Parent(c)) EXCEPT
                            ![thread_local(t)][Parent(c)] = put(@, x)]
                    ELSE st2
             cw1 == _classwide_stack(cw, t)
             cw2 == [cw1 EXCEPT ![thread_local(t)] = put(@, x)]
         IN Outcome(st3, cw2, Returned(x))

\* Mutant of EnterResult: __enter__ without the class-wide put.
EnterResultPerClassOnly(st, cw, t, x) ==
    LET c == TypeOf(x) IN
    IF ~HasThreadLocal(c)
    THEN Outcome(st, cw, Raised("AttributeError"))
    ELSE LET st1 == _stack(st, t, c)
             st2 == [st1 EXCEPT ![thread_local(t)][c] = put(@, x)]
         IN Outcome(st2, _classwide_stack(cw, t), Returned(x))

EnterResult(st, cw, t, x) ==
    LET c == TypeOf(x) IN
    IF ~HasThreadLocal(c)
    THEN Outcome(st, cw, Raised("AttributeError"))
    ELSE LET st1 == _stack(st, t, c)
             st2 == [st1 EXCEPT ![thread_local(t)][c] = put(@, x)]
             cw1 == _classwide_stack(cw, t)
             cw2 == [cw1 EXCEPT ![thread_local(t)] = put(@, x)]
         IN Outcome(st2, cw2, Returned(x))

\* Mutant of ExitResult: __exit__ refusing to pop unless x is the top entry
\* of both stacks.
ExitResultChecked(st, cw, t, x) ==
    LET c == TypeOf(x) IN
    IF ~HasThreadLocal(c)
    THEN Outcome(st, cw, Raised("AttributeError"))
    ELSE LET st1 == _stack(st, t, c)
             cw1 == _classwide_stack(cw, t)
             q == st1[thread_local(t)][c]
             w == cw1[thread_local(t)]
         IN IF q = <<>> \/ w = <<>>
            THEN Outcome(st1, cw1, Raised("Empty"))
            ELSE IF q[Len(q)] # x \/ w[Len(w)] # x
                 THEN Outcome(st1, cw1, Raised("RuntimeError"))
                 ELSE Outcome([st1 EXCEPT ![thread_local(t)][c] = get(@)],
                              [cw1 EXCEPT ![thread_local(t)] = get(@)],
                              Returned(None))

\* Mutant of ExitResult: the two get calls of __exit__ in the other order,
\* the class-wide stack first.
ExitResultClasswideFirst(st, cw, t, x) ==
    LET c == TypeOf(x) IN
    IF ~HasThreadLocal(c)
    THEN Outcome(st, cw, Raised("AttributeError"))
    ELSE LET cw1 == _classwide_stack(cw, t) IN
         IF cw1[thread_local(t)] = <<>>
         THEN Outcome(st, cw1, Raised("Empty"))
         ELSE LET cw2 == [cw1 EXCEPT ![thread_local(t)] = get(@)]
                  st1 == _stack(st, t, c)
              IN IF st1[thread_local(t)][c] = <<>>
                 THEN Outcome(st1, cw2, Raised("Empty"))
                 ELSE Outcome([st1 EXCEPT ![thread_local(t)][c] = get(@)],
                              cw2, Returned(None))

\* Mutant of ExitResult: __exit__ swallowing queue.Empty.
ExitResultSilent(st, cw, t, x) ==
    LET c == TypeOf(x) IN
    IF ~HasThreadLocal(c)
    THEN Outcome(st, cw, Raised("AttributeError"))
    ELSE LET st1 == _stack(st, t, c) IN
         IF st1[thread_local(t)][c] = <<>>
         THEN Outcome(st1, cw, Returned(None))
         ELSE LET st2 == [st1 EXCEPT ![thread_local(t)][c] = get(@)]
                  cw1 == _classwide_stack(cw, t)
              IN IF cw1[thread_local(t)] = <<>>
                 THEN Outcome(st2, cw1, Returned(None))
                 ELSE Outcome(st2, [cw1 EXCEPT ![thread_local(t)] = get(@)],
                              Returned(None))

\* Mutant of ExitResult: __exit__ ending in "return True".
ExitResultTrue(st, cw, t, x) ==
    LET c == TypeOf(x) IN
    IF ~HasThreadLocal(c)
    THEN Outcome(st, cw, Raised("AttributeError"))
    ELSE LET st1 == _stack(st, t, c) IN
         IF st1[thread_local(t)][c] = <<>>
         THEN Outcome(st1, cw, Raised("Empty"))
         ELSE LET st2 == [st1 EXCEPT ![thread_local(t)][c] = get(@)]
                  cw1 == _classwide_stack(cw, t)
              IN IF cw1[thread_local(t)] = <<>>
                 THEN Outcome(st2, cw1, Raised("Empty"))
                 ELSE Outcome(st2, [cw1 EXCEPT ![thread_local(t)] = get(@)],
                              Returned("True"))

ExitResult(st, cw, t, x) ==
    LET c == TypeOf(x) IN
    IF ~HasThreadLocal(c)
    THEN Outcome(st, cw, Raised("AttributeError"))
    ELSE LET st1 == _stack(st, t, c) IN
         IF st1[thread_local(t)][c] = <<>>
         THEN Outcome(st1, cw, Raised("Empty"))
         ELSE LET st2 == [st1 EXCEPT ![thread_local(t)][c] = get(@)]
                  cw1 == _classwide_stack(cw, t)
              IN IF cw1[thread_local(t)] = <<>>
                 THEN Outcome(st2, cw1, Raised("Empty"))
                 ELSE Outcome(st2, [cw1 EXCEPT ![thread_local(t)] = get(@)],
                              Returned(None))

\* Mutant of CurrentResult: current() returning None on an empty stack.
CurrentResultOptional(st, cw, t, c) ==
    IF ~HasThreadLocal(c)
    THEN Outcome(st, cw, Raised("AttributeError"))
    ELSE LET st1 == _stack(st, t, c)
             q == st1[thread_local(t)][c]
         IN IF Len(q) = 0
            THEN Outcome(st1, cw, Returned(None))
            ELSE Outcome(st1, cw, Returned(q[Len(q)]))

\* cls.current()
CurrentResult(st, cw, t, c) ==
    IF ~HasThreadLocal(c)
    THEN Outcome(st, cw, Raised("AttributeError"))
    ELSE LET st1 == _stack(st, t, c)
             q == st1[thread_local(t)][c]
         IN IF Len(q) = 0
            THEN Outcome(st1, cw, Raised("NoContextError"))
            ELSE Outcome(st1, cw, Returned(q[Len(q)]))

\* The list comprehension [item for item in queue if isinstance(item, F)].
Filtered(q, F) ==
    LET Keep(item) == isinstance(item, F) IN SelectSeq(q, Keep)

\* A list object: the live list of a stack, or a list built by the call.
LiveStack(k, c) == [kind |-> "live", of |-> "stack", key |-> k, cls |-> c]

LiveClasswide(k) == [kind |-> "live", of |-> "classwide", key |-> k, cls |-> None]

NewList(q) == [kind |-> "new", val |-> q]

NoList == [kind |-> "none"]

\* The items a list object holds in the storage st, cw.
Items(l, st, cw) ==
    CASE l.kind = "new" -> l.val
      [] l.kind = "live" /\ l.of = "stack" -> st[l.key][l.cls]
      [] l.kind = "live" /\ l.of = "classwide" -> cw[l.key]
      [] OTHER -> <<>>

\* cls.context_stack()
ContextStackResult(st, cw, t, c) ==
    IF ~HasThreadLocal(c)
    THEN Outcome(st, cw, Raised("AttributeError"))
    ELSE Outcome(_stack(st, t, c), cw, LiveStack(thread_local(t), c))

\* cls._classwide_context_stack(class_or_tuple)
ClasswideContextStackResult(st, cw, t, cls, F) ==
    LET cw1 == _classwide_stack(cw, t) IN
    IF F # NoFilter
    THEN Outcome(st, cw1, NewList(Filtered(cw1[thread_local(t)], F)))
    ELSE Outcome(st, cw1, LiveClasswide(thread_local(t)))

\* cls._current_classwide(class_or_tuple)
CurrentClasswideResult(st, cw, t, cls, F) ==
    LET r == ClasswideContextStackResult(st, cw, t, cls, F)
        queue == Items(r.out, r.stack, r.classwide)
    IN IF queue = <<>>
       THEN Outcome(r.stack, r.classwide, Raised("NoContextError"))
       ELSE Outcome(r.stack, r.classwide, Returned(queue[Len(queue)]))

\* Mutant of GetCurrentContextResult: returning queue[0], the oldest entry.
GetCurrentContextOldest(st, cw, t, F) ==
    LET r == ClasswideContextStackResult(st, cw, t, "ScopedContext", F)
        queue == Items(r.out, r.stack, r.classwide)
    IN IF queue = <<>>
       THEN Outcome(r.stack, r.classwide, Raised("NoContextError"))
       ELSE Outcome(r.stack, r.classwide, Returned(queue[1]))

\* get_current_context(class_or_tuple)
GetCurrentContextResult(st, cw, t, F) ==
    LET r == ClasswideContextStackResult(st, cw, t, "ScopedContext", F)
        queue == Items(r.out, r.stack, r.classwide)
    IN IF queue = <<>>
       THEN Outcome(r.stack, r.classwide, Raised("NoContextError"))
       ELSE Outcome(r.stack, r.classwide, Returned(queue[Len(queue)]))

\* Mutant of GetContextStackResult: keeping the items whose class is one of
\* the filter's classes, instances of their subclasses left out.
GetContextStackExact(st, cw, t, F) ==
    LET cw1 == _classwide_stack(cw, t)
        Keep(item) == TypeOf(item) \in F
    IN IF F # NoFilter
       THEN Outcome(st, cw1, NewList(SelectSeq(cw1[thread_local(t)], Keep)))
       ELSE Outcome(st, cw1, LiveClasswide(thread_local(t)))

\* get_context_stack(class_or_tuple)
GetContextStackResult(st, cw, t, F) ==
    LET cw1 == _classwide_stack(cw, t) IN
    IF F # NoFilter
    THEN Outcome(st, cw1, NewList(Filtered(cw1[thread_local(t)], F)))
    ELSE Outcome(st, cw1, LiveClasswide(thread_local(t)))

\* The with statement re-raises unless __exit__ returned a true value.
Suppresses(o) == o.kind = "return" /\ o.val # None

----------------------------------------------------------------------------
Init ==
    /\ stack = [t \in Units |-> [c \in StackClasses |-> NoStack]]
    /\ classwide = [t \in Units |-> NoStack]
    /\ scopes = [t \in Units |-> <<>>]
    /\ entered = [t \in Units |-> [x \in Contexts |-> 0]]
    /\ exc = [t \in Units |-> "none"]
    /\ ret = Returned(None)
    /\ snap = NoList

\* The contents of the stacks of thread t, as a with-block records them.
Contents(t) ==
    [st |-> [c \in StackClasses |-> Queue(stack[thread_local(t)][c])],
     cw |-> Queue(classwide[thread_local(t)])]

Apply(r) ==
    /\ stack' = r.stack
    /\ classwide' = r.classwide
    /\ ret' = r.out

\* "with x:" reaches the block: x.__enter__() is called.
WithEnter(t, x) ==
    /\ exc[t] = "none"
    /\ Active < MaxActive
    /\ LET r == EnterResult(stack, classwide, t, x) IN
        /\ Apply(r)
        /\ IF r.out.kind = "raise"
           THEN /\ exc' = [exc EXCEPT ![t] = r.out.val]
                /\ UNCHANGED scopes
           ELSE /\ scopes' = [scopes EXCEPT
                        ![t] = Append(@, [ctx |-> x, before |-> Contents(t)])]
                /\ UNCHANGED exc
    /\ UNCHANGED <<entered, snap>>

\* The innermost with-block ends normally: x.__exit__(None, None, None).
WithExit(t) ==
    /\ exc[t] = "none"
    /\ scopes[t] # <<>>
    /\ LET x == scopes[t][Len(scopes[t])].ctx
           r == ExitResult(stack, classwide, t, x)
       IN /\ Apply(r)
          /\ exc' = [exc EXCEPT
                ![t] = IF r.out.kind = "raise" THEN r.out.val ELSE "none"]
    /\ scopes' = [scopes EXCEPT ![t] = SubSeq(@, 1, Len(@) - 1)]
    /\ UNCHANGED <<entered, snap>>

\* The body of the innermost with-block raises.
Raise(t) ==
    /\ exc[t] = "none"
    /\ scopes[t] # <<>>
    /\ exc' = [exc EXCEPT ![t] = "BodyError"]
    /\ UNCHANGED <<stack, classwide, scopes, entered, ret, snap>>

\* The exception in flight leaves the innermost with-block:
\* x.__exit__(exc_type, exc_value, traceback).
Unwind(t) ==
    /\ exc[t] # "none"
    /\ scopes[t] # <<>>
    /\ LET x == scopes[t][Len(scopes[t])].ctx
           r == ExitResult(stack, classwide, t, x)
       IN /\ Apply(r)
          /\ exc' = [exc EXCEPT
                ![t] = IF r.out.kind = "raise" THEN r.out.val
                       ELSE IF Suppresses(r.out) THEN "none" ELSE @]
    /\ scopes' = [scopes EXCEPT ![t] = SubSeq(@, 1, Len(@) - 1)]
    /\ UNCHANGED <<entered, snap>>

\* The exception in flight reaches a handler around every open with-block.
Catch(t) ==
    /\ exc[t] # "none"
    /\ scopes[t] = <<>>
    /\ exc' = [exc EXCEPT ![t] = "none"]
    /\ UNCHANGED <<stack, classwide, scopes, entered, ret, snap>>

\* cls.current()
current(t, c) ==
    /\ exc[t] = "none"
    /\ Apply(CurrentResult(stack, classwide, t, c))
    /\ UNCHANGED <<scopes, entered, exc, snap>>

\* cls._current_classwide(class_or_tuple)
_current_classwide(t, cls, F) ==
    /\ exc[t] = "none"
    /\ Apply(CurrentClasswideResult(stack, classwide, t, cls, F))
    /\ UNCHANGED <<scopes, entered, exc, snap>>

\* get_current_context(class_or_tuple)
get_current_context(t, F) ==
    /\ exc[t] = "none"
    /\ Apply(GetCurrentContextResult(stack, classwide, t, F))
    /\ UNCHANGED <<scopes, entered, exc, snap>>

\* A stack accessor hands its list object to the caller, or raises.
Hand(r) ==
    /\ stack' = r.stack
    /\ classwide' = r.classwide
    /\ IF r.out.kind = "raise"
       THEN ret' = r.out /\ UNCHANGED snap
       ELSE snap' = r.out /\ UNCHANGED ret

\* cls.context_stack()
context_stack(t, c) ==
    /\ exc[t] = "none"
    /\ Hand(ContextStackResult(stack, classwide, t, c))
    /\ UNCHANGED <<scopes, entered, exc>>

\* cls._classwide_context_stack(class_or_tuple)
_classwide_context_stack(t, cls, F) ==
    /\ exc[t] = "none"
    /\ Hand(ClasswideContextStackResult(stack, classwide, t, cls, F))
    /\ UNCHANGED <<scopes, entered, exc>>

\* get_context_stack(class_or_tuple)
get_context_stack(t, F) ==
    /\ exc[t] = "none"
    /\ Hand(GetContextStackResult(stack, classwide, t, F))
    /\ UNCHANGED <<scopes, entered, exc>>

\* Bound on the length of a list the caller appends to.
MaxListLen == 2

\* The stacks of storage k hold as many entries per class as class-wide.
InSync(k) ==
    Len(Queue(classwide[k])) =
        Len(Queue(stack[k]["A"])) + Len(Queue(stack[k]["B"]))
            + Len(Queue(stack[k]["C"]))

\* The caller appends x to the list object it was handed: a list built by
\* the call changes alone, the live list of a stack is that stack.  The
\* caller appends to a live list once: while the stacks are still in sync.
ListAppend(t, x) ==
    /\ exc[t] = "none"
    /\ snap.kind # "none"
    /\ Len(Items(snap, stack, classwide)) < MaxListLen
    /\ snap.kind = "live" => InSync(snap.key)
    /\ CASE snap.kind = "new" ->
                /\ snap' = NewList(Append(snap.val, x))
                /\ UNCHANGED <<stack, classwide>>
         [] snap.kind = "live" /\ snap.of = "stack" ->
                /\ stack' = [stack EXCEPT ![snap.key][snap.cls] = Append(@, x)]
                /\ UNCHANGED <<classwide, snap>>
         [] snap.kind = "live" /\ snap.of = "classwide" ->
                /\ classwide' = [classwide EXCEPT ![snap.key] = Append(@, x)]
                /\ UNCHANGED <<stack, snap>>
    /\ UNCHANGED <<scopes, entered, exc, ret>>

\* The number of direct __enter__ calls of thread t not yet exited.
Unexited(t) ==
    LET RECURSIVE Sum(_)
        Sum(S) == IF S = {} THEN 0
                  ELSE LET x == CHOOSE y \in S : TRUE
                       IN entered[t][x] + Sum(S \ {x})
    IN Sum(Contexts)

\* x.__enter__() called directly, outside a with statement.
__enter__(t, x) ==
    /\ exc[t] = "none"
    /\ Active < MaxActive
    /\ Unexited(t) < MaxActive
    /\ LET r == EnterResult(stack, classwide, t, x) IN
        /\ Apply(r)
        /\ entered' = [entered EXCEPT
                ![t][x] = IF r.out.kind = "return" THEN @ + 1 ELSE @]
    /\ UNCHANGED <<scopes, exc, snap>>

\* x.__exit__(None, None, None) called directly.
__exit__(t, x) ==
    /\ exc[t] = "none"
    /\ LET r == ExitResult(stack, classwide, t, x) IN
        /\ Apply(r)
        /\ entered' = [entered EXCEPT
                ![t][x] = IF r.out.kind = "return" /\ @ > 0 THEN @ - 1 ELSE @]
    /\ UNCHANGED <<scopes, exc, snap>>

----------------------------------------------------------------------------
MainThread == "t1"

\* A single-threaded program that opens and leaves its scopes with the with
\* statement and looks the current context up.
Next ==
    \/ \E x \in Contexts : WithEnter(MainThread, x)
    \/ WithExit(MainThread)
    \/ Raise(MainThread)
    \/ Unwind(MainThread)
    \/ Catch(MainThread)
    \/ \E c \in Classes : current(MainThread, c)
    \/ \E c \in Classes, F \in Filters : _current_classwide(MainThread, c, F)
    \/ \E F \in Filters : get_current_context(MainThread, F)

Spec == Init /\ [][Next]_vars

\* The classes such a program calls _classwide_context_stack on, and the
\* filters it passes.
SnapshotClasses == {"ScopedContext", "B"}

SnapshotFilters == {NoFilter, {"A"}, {"B"}}

\* A single-threaded program that opens and leaves its scopes with the with
\* statement and reads the stacks.
NextSnapshot ==
    \/ \E x \in Contexts : WithEnter(MainThread, x)
    \/ WithExit(MainThread)
    \/ \E c \in Classes : context_stack(MainThread, c)
    \/ \E c \in SnapshotClasses, F \in SnapshotFilters :
            _classwide_context_stack(MainThread, c, F)
    \/ \E F \in SnapshotFilters : get_context_stack(MainThread, F)

SpecSnapshot == Init /\ [][NextSnapshot]_vars

\* The filters a program that appends to the returned list passes.
AppendFilters == {NoFilter, {"A"}, {"A", "C"}}

\* The contexts such a program appends.
AppendArgs == {"c1"}

\* A single-threaded program that keeps the list a stack accessor returned
\* and appends to it.
NextAppend ==
    \/ \E x \in Contexts : WithEnter(MainThread, x)
    \/ WithExit(MainThread)
    \/ \E c \in Classes : context_stack(MainThread, c)
    \/ \E F \in AppendFilters : get_context_stack(MainThread, F)
    \/ \E x \in AppendArgs : ListAppend(MainThread, x)

SpecAppend == Init /\ [][NextAppend]_vars

\* A single-threaded program that calls __enter__ and __exit__ itself, in
\* any order.
NextDirect ==
    \/ \E x \in Contexts : __enter__(MainThread, x)
    \/ \E x \in Contexts : __exit__(MainThread, x)
    \/ \E c \in Classes : current(MainThread, c)
    \/ \E F \in Filters : get_current_context(MainThread, F)

SpecDirect == Init /\ [][NextDirect]_vars

\* Bound on the entries of the two threads together under SpecThreads.
MaxThreadActive == 2

\* The contexts each thread enters: both threads enter instances of A.
Pool(t) == IF t = "t1" THEN {"a1", "b1"} ELSE {"a2", "c1"}

\* The contexts a thread calls __exit__ on: the ones it enters and a1, a
\* context of the other thread handed to t2.
Handed(t) == IF t = "t2" THEN Pool(t) \cup {"a1"} ELSE Pool(t)

\* The class the threads look up, and the filters they pass.
ThreadClasses == {"A"}

ThreadFilters == {NoFilter, {"A"}}

\* Two threads calling into the library, interleaved in any order.
NextThreads ==
    \E t \in Threads :
        \/ \E x \in Pool(t) : Active < MaxThreadActive /\ __enter__(t, x)
        \/ \E x \in Handed(t) : __exit__(t, x)
        \/ \E c \in ThreadClasses : current(t, c)
        \/ \E F \in ThreadFilters : get_current_context(t, F)
        \/ \E c \in ThreadClasses : context_stack(t, c)
        \/ \E F \in ThreadFilters : get_context_stack(t, F)

SpecThreads == Init /\ [][NextThreads]_vars

\* The number of contexts the tasks have open together.
MaxTaskActive == 2

\* The contexts each task enters.
TaskPool(k) == IF k = "k1" THEN {"a1"} ELSE {"a2", "c1"}

\* The classes the tasks look up, and the filters they pass.
TaskClasses == {"A", "C"}

TaskFilters == {NoFilter, {"C"}}

\* Two tasks on thread t1, each opening and leaving its own with-blocks and
\* looking contexts up; the loop switches between them at any await, inside
\* open with-blocks too.
NextTasks ==
    \E k \in Tasks :
        \/ \E x \in TaskPool(k) : Active < MaxTaskActive /\ WithEnter(k, x)
        \/ WithExit(k)
        \/ \E c \in TaskClasses : current(k, c)
        \/ \E F \in TaskFilters : get_current_context(k, F)

SpecTasks == Init /\ [][NextTasks]_vars
----------------------------------------------------------------------------
\* The contexts of the with-blocks open on thread t, outermost first: the
\* contexts entered and not yet exited, in the order they were entered.
OpenContexts(t) == [i \in 1..Len(scopes[t]) |-> scopes[t][i].ctx]

\* The last element of a non-empty sequence.
Last(q) == q[Len(q)]

\* The elements of q whose concrete class is exactly c.
OfClass(q, c) == LET Is(x) == TypeOf(x) = c IN SelectSeq(q, Is)

\* The outcome of a lookup that finds the sequence q of candidates: the
\* most recent one, or NoContextError when there is none.
MostRecent(q) ==
    IF q = <<>> THEN Raised("NoContextError") ELSE Returned(Last(q))

\* C1: LIFO correctness.  On a thread driven by properly nested scopes,
\* C.current() returns the context of the innermost open scope of class C
\* (the one just entered, and after its exit the one current before it), and
\* raises NoContextError when no scope of class C is open.
C1_LifoCurrent ==
    \A c \in StackClasses :
        CurrentResult(stack, classwide, MainThread, c).out
            = MostRecent(OfClass(OpenContexts(MainThread), c))

\* Reached: a1 is open, a scope opened inside it has been exited (the last
\* call returned None), and A.current() gives a1 again.
C1_Witness ==
    /\ OpenContexts(MainThread) = <<"a1">>
    /\ ret = Returned(None)
    /\ CurrentResult(stack, classwide, MainThread, "A").out = Returned("a1")

\* C2: dual-stack projection.  On a thread driven by properly nested scopes,
\* the entries of the class-wide stack whose concrete class is T are, in the
\* same order, the per-class stack of T, for every class T.
C2_Projection ==
    \A c \in StackClasses :
        OfClass(Queue(classwide[MainThread]), c) = Queue(stack[MainThread][c])

\* Reached: scopes of two classes interleaved, a1 : A, b1 : B, a2 : A.
C2_Witness ==
    /\ Queue(classwide[MainThread]) = <<"a1", "b1", "a2">>
    /\ Queue(stack[MainThread]["A"]) = <<"a1", "a2">>

\* C4: exit on unwind.  When an exception in flight leaves the with-block of
\* x, x is popped from both stacks, the exception stays in flight, and the
\* stacks hold what they held just before x was entered.
C4_ExitOnUnwind ==
    [][Unwind(MainThread) =>
            LET f == Last(scopes[MainThread]) IN
            /\ exc'[MainThread] = exc[MainThread]
            /\ Contents(MainThread)' = f.before
            /\ Queue(classwide[MainThread])
                    = Append(Queue(classwide'[MainThread]), f.ctx)
            /\ Queue(stack[MainThread][TypeOf(f.ctx)])
                    = Append(Queue(stack'[MainThread][TypeOf(f.ctx)]), f.ctx)
            /\ (f.before.st[TypeOf(f.ctx)] = <<>> =>
                    CurrentResult(stack', classwide', MainThread,
                                  TypeOf(f.ctx)).out = Raised("NoContextError"))
      ]_vars

\* Reached: the body of the only open with-block raised, a1 was popped and
\* the exception is past the block.
C4_Witness ==
    /\ exc[MainThread] = "BodyError"
    /\ scopes[MainThread] = <<>>
    /\ Queue(stack[MainThread]["A"]) = <<>>
    /\ Queue(classwide[MainThread]) = <<>>
    /\ ret = Returned(None)

\* Whether an instance of class c passes the filter F: F is absent, or c is
\* one of its classes or derives from one of them.
Derives == { <<"A", "A">>, <<"B", "B">>, <<"C", "C">>, <<"B", "A">>,
             <<"A", "ScopedContext">>, <<"B", "ScopedContext">>,
             <<"C", "ScopedContext">>, <<"ScopedContext", "ScopedContext">> }

Passes(x, F) == F = NoFilter \/ \E d \in F : <<TypeOf(x), d>> \in Derives

\* Scans q from its top (its end) and gives the first element passing F.
RECURSIVE ScanFromTop(_, _)
ScanFromTop(q, F) ==
    IF q = <<>> THEN Raised("NoContextError")
    ELSE IF Passes(Last(q), F) THEN Returned(Last(q))
    ELSE ScanFromTop(SubSeq(q, 1, Len(q) - 1), F)

\* C5: filtered cross-type lookup.  get_current_context(F) and
\* cls._current_classwide(F) give the most recently entered context still
\* open on the thread that passes F (the first match scanning from the
\* top), the most recent of all when F is absent; with a1 : A, c1 : C,
\* b1 : B open and F = {A, B} that is b1, with a1 : A, c1 : C open it is a1.
C5_FilteredLookup ==
    /\ \A F \in Filters :
        /\ GetCurrentContextResult(stack, classwide, MainThread, F).out
                = ScanFromTop(OpenContexts(MainThread), F)
        /\ \A cls \in Classes :
            CurrentClasswideResult(stack, classwide, MainThread, cls, F).out
                = ScanFromTop(OpenContexts(MainThread), F)
    /\ OpenContexts(MainThread) = <<"a1", "c1", "b1">> =>
            GetCurrentContextResult(stack, classwide, MainThread,
                                    {"A", "B"}).out = Returned("b1")
    /\ OpenContexts(MainThread) = <<"a1", "c1">> =>
            GetCurrentContextResult(stack, classwide, MainThread,
                                    {"A", "B"}).out = Returned("a1")

\* Reached: a1, c1 are open, the most recent does not pass the filter, and
\* the lookup returned a1.
C5_Witness ==
    /\ OpenContexts(MainThread) = <<"a1", "c1">>
    /\ ret = Returned("a1")

\* The lists held by the storage st, cw for thread t.
Held(st, cw, t) ==
    [st |-> [c \in StackClasses |-> Queue(st[thread_local(t)][c])],
     cw |-> Queue(cw[thread_local(t)])]

\* C7: uniform absent policy.  C.current() raises NoContextError exactly
\* when no context of class C is on the per-class stack, and
\* get_current_context(F) / cls._current_classwide(F) raise NoContextError
\* exactly when no open context passes F; in those states they return no
\* value, and no lookup changes what any stack holds.
C7_AbsentPolicy ==
    /\ \A c \in StackClasses :
        LET r == CurrentResult(stack, classwide, MainThread, c) IN
        /\ r.out = Raised("NoContextError")
                <=> Queue(stack[MainThread][c]) = <<>>
        /\ Queue(stack[MainThread][c]) = <<>> => r.out.kind = "raise"
        /\ Held(r.stack, r.classwide, MainThread) = Contents(MainThread)
    /\ \A F \in Filters :
        LET absent == \A i \in 1..Len(scopes[MainThread]) :
                            ~Passes(scopes[MainThread][i].ctx, F)
            g == GetCurrentContextResult(stack, classwide, MainThread, F)
        IN /\ g.out = Raised("NoContextError") <=> absent
           /\ absent => g.out.kind = "raise"
           /\ Held(g.stack, g.classwide, MainThread) = Contents(MainThread)
           /\ \A cls \in Classes :
                LET k == CurrentClasswideResult(stack, classwide, MainThread,
                                                cls, F)
                IN /\ k.out = Raised("NoContextError") <=> absent
                   /\ absent => k.out.kind = "raise"
                   /\ Held(k.stack, k.classwide, MainThread)
                            = Contents(MainThread)

\* Reached: the class-wide stack holds c1 only, a lookup found no match and
\* raised NoContextError.
C7_Witness ==
    /\ OpenContexts(MainThread) = <<"c1">>
    /\ Queue(classwide[MainThread]) = <<"c1">>
    /\ ret = Raised("NoContextError")
    /\ exc[MainThread] = "none"

\* The set of the elements of the sequence q.
Range(q) == {q[i] : i \in 1..Len(q)}

\* C3: thread isolation.  Whatever the interleaving of the two threads,
\* every context that C.current(), get_current_context(F) or a stack
\* accessor gives on a thread is one that thread entered, never one of the
\* contexts the other thread enters, also when both enter instances of A.
C3_ThreadIsolation ==
    \A t \in Threads :
        /\ \A c \in StackClasses :
            LET r == CurrentResult(stack, classwide, t, c)
                l == ContextStackResult(stack, classwide, t, c)
            IN /\ r.out.kind = "return" => r.out.val \in Pool(t)
               /\ Range(Items(l.out, l.stack, l.classwide)) \subseteq Pool(t)
        /\ \A F \in Filters :
            LET g == GetCurrentContextResult(stack, classwide, t, F)
                l == GetContextStackResult(stack, classwide, t, F)
            IN /\ g.out.kind = "return" => g.out.val \in Pool(t)
               /\ Range(Items(l.out, l.stack, l.classwide)) \subseteq Pool(t)

\* Reached: each thread has its own instance of A open at the same time,
\* and a call on one of them returned that thread's own instance.
C3_Witness ==
    /\ Queue(stack["t1"]["A"]) = <<"a1">>
    /\ Queue(stack["t2"]["A"]) = <<"a2">>
    /\ Queue(classwide["t1"]) = <<"a1">>
    /\ Queue(classwide["t2"]) = <<"a2">>
    /\ ret = Returned("a2")

\* C6 as stated: __exit__ on a context with no matching un-exited __enter__
\* on the thread always raises, also when other contexts of its class are
\* still on the stack.
C6_UnderflowAlways ==
    \A x \in Contexts :
        entered[MainThread][x] = 0 =>
            ExitResult(stack, classwide, MainThread, x).out.kind = "raise"

\* The stacks of thread t with the top entry of class c and of the
\* class-wide stack removed.
Popped(t, c) ==
    [st |-> [d \in StackClasses |->
                IF d = c
                THEN SubSeq(Queue(stack[t][d]), 1, Len(Queue(stack[t][d])) - 1)
                ELSE Queue(stack[t][d])],
     cw |-> SubSeq(Queue(classwide[t]), 1, Len(Queue(classwide[t])) - 1)]

\* C6 amended: __exit__ on a context x with no matching un-exited __enter__
\* on the thread raises (queue.Empty, or AttributeError for a direct
\* ScopedContext instance) and leaves the stacks as they are when no entry
\* is on the per-class stack of the class of x; when that stack is not empty
\* the call returns None and pops the top of it and of the class-wide stack.
C6_UnderflowOnEmpty ==
    \A x \in Contexts :
        entered[MainThread][x] = 0 =>
            LET c == TypeOf(x)
                r == ExitResult(stack, classwide, MainThread, x)
            IN IF HasThreadLocal(c) /\ Queue(stack[MainThread][c]) # <<>>
               THEN /\ r.out = Returned(None)
                    /\ Held(r.stack, r.classwide, MainThread)
                            = Popped(MainThread, c)
               ELSE /\ r.out \in {Raised("Empty"), Raised("AttributeError")}
                    /\ r.out = Raised("Empty") <=> HasThreadLocal(c)
                    /\ Held(r.stack, r.classwide, MainThread)
                            = Contents(MainThread)

\* Reached: a1 was entered and a1.__exit__ has not returned since, yet the
\* stacks are empty: the __exit__ of a context never entered popped a1 and
\* returned None.
C6_Witness ==
    /\ entered[MainThread]["a1"] = 1
    /\ Queue(stack[MainThread]["A"]) = <<>>
    /\ Queue(classwide[MainThread]) = <<>>
    /\ ret = Returned(None)
\* The items of the list a stack accessor returns, right after the call.
ListOf(r) == Items(r.out, r.stack, r.classwide)

\* The elements of q that are members of the set S, in the order of q.
Within(q, S) == LET In(x) == x \in S IN SelectSeq(q, In)

\* C8: snapshot order.  C.context_stack() lists the open contexts of class
\* C oldest first, the current one last; get_context_stack(F) lists open
\* contexts in the order they were entered, all of them when F is absent;
\* with a1 : A, b1 : B, a2 : A open, get_context_stack() is [a1, b1, a2] and
\* A.context_stack() is [a1, a2].
C8_SnapshotOrder ==
    /\ \A c \in StackClasses :
        LET q == ListOf(ContextStackResult(stack, classwide, MainThread, c))
        IN /\ q = OfClass(OpenContexts(MainThread), c)
           /\ q # <<>> =>
                CurrentResult(stack, classwide, MainThread, c).out
                    = Returned(Last(q))
    /\ \A F \in Filters :
        LET q == ListOf(GetContextStackResult(stack, classwide, MainThread, F))
        IN /\ F = NoFilter => q = OpenContexts(MainThread)
           /\ q = Within(OpenContexts(MainThread), Range(q))
    /\ OpenContexts(MainThread) = <<"a1", "b1", "a2">> =>
        /\ ListOf(GetContextStackResult(stack, classwide, MainThread,
                                        NoFilter)) = <<"a1", "b1", "a2">>
        /\ ListOf(ContextStackResult(stack, classwide, MainThread, "A"))
                = <<"a1", "a2">>

\* Reached: a1, b1, a2 are open and get_context_stack() was called.
C8_Witness ==
    /\ OpenContexts(MainThread) = <<"a1", "b1", "a2">>
    /\ snap = LiveClasswide(MainThread)
    /\ Items(snap, stack, classwide) = <<"a1", "b1", "a2">>

\* C9 as stated: a list a stack accessor returned keeps its items when
\* scopes are entered and exited afterwards, and appending to it changes no
\* stack.
C9_SnapshotsDetached ==
    [][/\ (snap.kind # "none" /\ snap' = snap) =>
                Items(snap, stack, classwide)' = Items(snap, stack, classwide)
       /\ \A x \in AppendArgs :
            ListAppend(MainThread, x) =>
                Contents(MainThread)' = Contents(MainThread)
      ]_vars

\* C10 as stated: for every filter F of context classes get_context_stack(F)
\* holds exactly the open contexts whose concrete class is a member of F,
\* and get_context_stack(T) equals T.context_stack() for every context
\* class T.
C10_ExactClassFilter ==
    /\ \A F \in SUBSET StackClasses :
        ListOf(GetContextStackResult(stack, classwide, MainThread, F))
            = Within(OpenContexts(MainThread),
                     {x \in Contexts : TypeOf(x) \in F})
    /\ \A T \in StackClasses :
        ListOf(GetContextStackResult(stack, classwide, MainThread, {T}))
            = ListOf(ContextStackResult(stack, classwide, MainThread, T))

\* C10 amended: get_context_stack(F) holds exactly the open contexts whose
\* concrete class is a member of F or derives from one, and
\* get_context_stack(T) equals T.context_stack() while no instance of a
\* proper subclass of T is open.
C10_InstanceFilter ==
    /\ \A F \in SUBSET Classes :
        ListOf(GetContextStackResult(stack, classwide, MainThread, F))
            = Within(OpenContexts(MainThread),
                     {x \in Contexts : Passes(x, F)})
    /\ \A T \in StackClasses :
        (\A x \in Range(OpenContexts(MainThread)) :
                <<TypeOf(x), T>> \in Derives => TypeOf(x) = T)
            => ListOf(GetContextStackResult(stack, classwide, MainThread, {T}))
                = ListOf(ContextStackResult(stack, classwide, MainThread, T))

\* Reached: a1 : A, b1 : B and c1 : C are open, B derives from A, and a
\* filtered get_context_stack returned [a1, b1].
C10_Witness ==
    /\ OpenContexts(MainThread) = <<"a1", "b1", "c1">>
    /\ snap = NewList(<<"a1", "b1">>)
    /\ ListOf(GetContextStackResult(stack, classwide, MainThread, {"A"}))
            = <<"a1", "b1">>

\* C11: per-type storage isolation.  __enter__ and __exit__ of a context of
\* class D, also when D derives from another context class C, leave the
\* per-class stack of every other class and the result of its current() as
\* they are; a successful call changes the stack of D and the one class-wide
\* stack of the thread by the same entry.
C11_PerTypeStorage ==
    \A x \in Contexts :
        LET d == TypeOf(x)
            e == EnterResult(stack, classwide, MainThread, x)
            l == ExitResult(stack, classwide, MainThread, x)
        IN /\ \A c \in StackClasses \ {d} :
                /\ Queue(e.stack[MainThread][c]) = Queue(stack[MainThread][c])
                /\ Queue(l.stack[MainThread][c]) = Queue(stack[MainThread][c])
                /\ CurrentResult(e.stack, e.classwide, MainThread, c).out
                        = CurrentResult(stack, classwide, MainThread, c).out
                /\ CurrentResult(l.stack, l.classwide, MainThread, c).out
                        = CurrentResult(stack, classwide, MainThread, c).out
           /\ e.out.kind = "return" =>
                /\ e.stack[MainThread][d]
                        = Append(Queue(stack[MainThread][d]), x)
                /\ e.classwide[MainThread]
                        = Append(Queue(classwide[MainThread]), x)
           /\ l.out.kind = "return" =>
                /\ Len(l.stack[MainThread][d])
                        = Len(Queue(stack[MainThread][d])) - 1
                /\ Len(l.classwide[MainThread])
                        = Len(Queue(classwide[MainThread])) - 1

\* Reached: b1 of class B, which derives from A, was entered inside a1; the
\* stack of A holds a1 alone and the class-wide stack holds both.
C11_Witness ==
    /\ Queue(stack[MainThread]["A"]) = <<"a1">>
    /\ Queue(stack[MainThread]["B"]) = <<"b1">>
    /\ Queue(classwide[MainThread]) = <<"a1", "b1">>
    /\ ret = Returned("b1")

\* C12: the module-level functions agree with the class-level operations.
\* For every filter F, absent, one class or a set of classes, and every
\* context class cls, get_current_context(F) ends as cls._current_classwide(F)
\* does, returning the same context or raising NoContextError, and
\* get_context_stack(F) returns the list cls._classwide_context_stack(F)
\* returns, with the same items in the same order; both leave the same
\* storage behind.
C12_FreeFunctionsAgree ==
    \A F \in Filters :
        LET g == GetCurrentContextResult(stack, classwide, MainThread, F)
            gs == GetContextStackResult(stack, classwide, MainThread, F)
        IN \A cls \in Classes :
            LET k == CurrentClasswideResult(stack, classwide, MainThread,
                                            cls, F)
                ks == ClasswideContextStackResult(stack, classwide,
                                                  MainThread, cls, F)
            IN /\ g.out = k.out
               /\ Held(g.stack, g.classwide, MainThread)
                    = Held(k.stack, k.classwide, MainThread)
               /\ gs.out = ks.out
               /\ ListOf(gs) = ListOf(ks)
               /\ Held(gs.stack, gs.classwide, MainThread)
                    = Held(ks.stack, ks.classwide, MainThread)

\* Reached: a1 : A, b1 : B and c1 : C are open, B derives from A, and a
\* lookup filtered by class returned b1, which get_current_context(A) and
\* C._current_classwide(A) both give.
C12_Witness ==
    /\ OpenContexts(MainThread) = <<"a1", "b1", "c1">>
    /\ exc[MainThread] = "none"
    /\ ret = Returned("b1")
    /\ GetCurrentContextResult(stack, classwide, MainThread, {"A"}).out
            = Returned("b1")
    /\ CurrentClasswideResult(stack, classwide, MainThread, "C", {"A"}).out
            = Returned("b1")
    /\ ListOf(ClasswideContextStackResult(stack, classwide, MainThread, "C",
                                          {"A"})) = <<"a1", "b1">>

\* C13: __exit__ makes no identity check.  x.__exit__() on a context of class
\* C whose per-class stack and class-wide stack are not empty returns None
\* and removes the top entry of each, whichever contexts these are; with
\* a1 : A then b1 : B entered, a1.__exit__() leaves the class-wide stack
\* [a1], the stack of A empty and the stack of B [b1], so that the class-wide
\* stack restricted to a class is no longer the stack of that class.
C13_NoIdentityCheck ==
    /\ \A x \in Contexts :
        LET c == TypeOf(x)
            r == ExitResult(stack, classwide, MainThread, x)
        IN (/\ HasThreadLocal(c)
            /\ Queue(stack[MainThread][c]) # <<>>
            /\ Queue(classwide[MainThread]) # <<>>) =>
                /\ r.out = Returned(None)
                /\ Held(r.stack, r.classwide, MainThread)
                        = Popped(MainThread, c)
    /\ (/\ Queue(classwide[MainThread]) = <<"a1", "b1">>
        /\ Queue(stack[MainThread]["A"]) = <<"a1">>
        /\ Queue(stack[MainThread]["B"]) = <<"b1">>) =>
            LET r == ExitResult(stack, classwide, MainThread, "a1")
            IN /\ r.out = Returned(None)
               /\ r.classwide[MainThread] = <<"a1">>
               /\ r.stack[MainThread]["A"] = <<>>
               /\ r.stack[MainThread]["B"] = <<"b1">>
               /\ OfClass(r.classwide[MainThread], "A")
                        # r.stack[MainThread]["A"]
               /\ OfClass(r.classwide[MainThread], "B")
                        # r.stack[MainThread]["B"]

\* Reached: a1 then b1 were entered and a1 was exited first; a1 is left on
\* the class-wide stack and b1 on the stack of B.
C13_Witness ==
    /\ Queue(classwide[MainThread]) = <<"a1">>
    /\ Queue(stack[MainThread]["A"]) = <<>>
    /\ Queue(stack[MainThread]["B"]) = <<"b1">>
    /\ entered[MainThread]["b1"] = 1
    /\ entered[MainThread]["a1"] = 0
    /\ ret = Returned(None)

\* C14: the lengths stay in step.  In every state reached by __enter__ and
\* __exit__ calls in any order, nested or not, returning or raising, the
\* class-wide stack of the thread is as long as its per-class stacks
\* together; an __exit__ that raises has removed nothing, and every call
\* leaves the lengths in step again.
C14_LengthsInStep ==
    LET Total(h) == Len(h.st["A"]) + Len(h.st["B"]) + Len(h.st["C"])
        Level(h) == Len(h.cw) = Total(h)
    IN /\ Level(Contents(MainThread))
       /\ \A x \in Contexts :
            LET e == EnterResult(stack, classwide, MainThread, x)
                l == ExitResult(stack, classwide, MainThread, x)
            IN /\ Level(Held(e.stack, e.classwide, MainThread))
               /\ Level(Held(l.stack, l.classwide, MainThread))
               /\ l.out.kind = "raise" =>
                    Held(l.stack, l.classwide, MainThread)
                        = Contents(MainThread)

\* Reached: after a1, b1 were entered and a1 exited out of order, a further
\* __exit__ of a1 raised queue.Empty; one entry is on the class-wide stack
\* and one on the stack of B.
C14_Witness ==
    /\ ret = Raised("Empty")
    /\ Queue(classwide[MainThread]) = <<"a1">>
    /\ Queue(stack[MainThread]["A"]) = <<>>
    /\ Queue(stack[MainThread]["B"]) = <<"b1">>
    /\ Queue(stack[MainThread]["C"]) = <<>>

\* C15: a failed exit changes nothing.  x.__exit__() on a context of class C
\* while the per-class stack of C on the thread is empty raises queue.Empty
\* and leaves the items of every per-class stack and of the class-wide stack
\* as they were, also when the class-wide stack holds contexts of other
\* classes.
C15_FailedExitKeepsStacks ==
    \A x \in Contexts :
        LET c == TypeOf(x)
            r == ExitResult(stack, classwide, MainThread, x)
        IN (HasThreadLocal(c) /\ Queue(stack[MainThread][c]) = <<>>) =>
                /\ r.out = Raised("Empty")
                /\ \A d \in StackClasses :
                        r.stack[MainThread][d] = stack[MainThread][d]
                            \/ (d = c /\ stack[MainThread][d] = NoStack
                                      /\ r.stack[MainThread][d] = <<>>)
                /\ Queue(r.classwide[MainThread])
                        = Queue(classwide[MainThread])
                /\ Held(r.stack, r.classwide, MainThread)
                        = Contents(MainThread)

\* Reached: with b1 alone on the class-wide stack and on the stack of B, an
\* __exit__ of a context of another class raised queue.Empty.
C15_Witness ==
    /\ ret = Raised("Empty")
    /\ Queue(classwide[MainThread]) = <<"b1">>
    /\ Queue(stack[MainThread]["B"]) = <<"b1">>
    /\ Queue(stack[MainThread]["A"]) = <<>>
    /\ Queue(stack[MainThread]["C"]) = <<>>
    /\ entered[MainThread]["b1"] = 1

\* The stacks h with x pushed onto the stack of its class and onto the
\* class-wide stack.
Pushed(h, x) ==
    [st |-> [c \in StackClasses |->
                IF c = TypeOf(x) THEN Append(h.st[c], x) ELSE h.st[c]],
     cw |-> Append(h.cw, x)]

\* C16: enter and exit are a round trip, and a context can be used again.
\* x.__enter__() on a context of a context class returns x itself and pushes
\* x onto the stack of its class and the class-wide stack, in every state
\* the same way; once the with-blocks opened inside the block of x have
\* ended, x.__exit__() returns None and leaves both stacks as they were
\* before x was entered; entering x once more after that exit gives the
\* stacks and the result of the first entry.
C16_RoundTrip ==
    /\ \A x \in Contexts :
        HasThreadLocal(TypeOf(x)) =>
            LET e == EnterResult(stack, classwide, MainThread, x)
                l == ExitResult(e.stack, e.classwide, MainThread, x)
            IN /\ e.out = Returned(x)
               /\ Held(e.stack, e.classwide, MainThread)
                    = Pushed(Contents(MainThread), x)
               /\ l.out = Returned(None)
               /\ Held(l.stack, l.classwide, MainThread)
                    = Contents(MainThread)
    /\ scopes[MainThread] # <<>> =>
        LET f == Last(scopes[MainThread])
            l == ExitResult(stack, classwide, MainThread, f.ctx)
            e == EnterResult(l.stack, l.classwide, MainThread, f.ctx)
        IN /\ Contents(MainThread) = Pushed(f.before, f.ctx)
           /\ l.out = Returned(None)
           /\ Held(l.stack, l.classwide, MainThread) = f.before
           /\ e.out = Returned(f.ctx)
           /\ Held(e.stack, e.classwide, MainThread) = Contents(MainThread)

\* Reached: b1 was entered inside a1 and its block has ended; a1 is the one
\* open context again, as before b1 was entered.
C16_Witness ==
    /\ OpenContexts(MainThread) = <<"a1">>
    /\ stack[MainThread]["B"] # NoStack
    /\ Queue(stack[MainThread]["B"]) = <<>>
    /\ Queue(stack[MainThread]["A"]) = <<"a1">>
    /\ Queue(classwide[MainThread]) = <<"a1">>
    /\ exc[MainThread] = "none"
    /\ ret = Returned(None)

\* C17: what a call changes.  x.__enter__() and x.__exit__() executed by
\* thread t on a context of class C leave the per-class stacks of the other
\* classes on t and all stacks of every other thread as they are; a call
\* that returns has pushed x on top of, or removed the top of, the stack of
\* C on t and the class-wide stack of t, one entry each; this is so for an
\* __exit__ on a context that another thread entered as well, which acts on
\* the stacks of the thread executing it.
C17_FrameOfEnterExit ==
    \A t \in Threads, x \in Contexts :
        LET c == TypeOf(x)
            e == EnterResult(stack, classwide, t, x)
            l == ExitResult(stack, classwide, t, x)
        IN /\ \A u \in Threads \ {t} :
                /\ Held(e.stack, e.classwide, u) = Contents(u)
                /\ Held(l.stack, l.classwide, u) = Contents(u)
           /\ \A d \in StackClasses \ {c} :
                /\ Held(e.stack, e.classwide, t).st[d] = Contents(t).st[d]
                /\ Held(l.stack, l.classwide, t).st[d] = Contents(t).st[d]
           /\ IF e.out.kind = "return"
              THEN Held(e.stack, e.classwide, t) = Pushed(Contents(t), x)
              ELSE Held(e.stack, e.classwide, t) = Contents(t)
           /\ IF l.out.kind = "return"
              THEN /\ Contents(t).st[c] # <<>>
                   /\ Contents(t).cw # <<>>
                   /\ Held(l.stack, l.classwide, t) = Popped(t, c)
              ELSE Held(l.stack, l.classwide, t) = Contents(t)

\* Reached: t1 entered a1 and t2 entered a2; a1.__exit__() executed by t2
\* returned and removed a2, the entry of t2, while a1 is still on the stacks
\* of t1.
C17_Witness ==
    /\ entered["t1"]["a1"] = 1
    /\ Queue(stack["t1"]["A"]) = <<"a1">>
    /\ Queue(classwide["t1"]) = <<"a1">>
    /\ entered["t2"]["a2"] = 1
    /\ Queue(stack["t2"]["A"]) = <<>>
    /\ Queue(classwide["t2"]) = <<>>
    /\ ret = Returned(None)

\* The number of times x occurs in q.
Count(q, x) == Cardinality({i \in 1..Len(q) : q[i] = x})

\* C18: entering an open context again is accepted.  x.__enter__() on a
\* context that is on the stacks already returns x and pushes it once more
\* onto the stack of its class and the class-wide stack, where it then
\* occurs one more time; when x was entered twice in a row, x is still what
\* current() returns after one __exit__, and after a second __exit__ both
\* occurrences are gone.
C18_ReentryAccepted ==
    \A x \in Contexts :
        LET c == TypeOf(x)
            q == Queue(stack[MainThread][c])
            w == Queue(classwide[MainThread])
            e == EnterResult(stack, classwide, MainThread, x)
            l == ExitResult(e.stack, e.classwide, MainThread, x)
            m == ExitResult(l.stack, l.classwide, MainThread, x)
        IN /\ (HasThreadLocal(c) /\ (Count(q, x) > 0 \/ Count(w, x) > 0)) =>
                /\ e.out = Returned(x)
                /\ e.stack[MainThread][c] = Append(q, x)
                /\ e.classwide[MainThread] = Append(w, x)
                /\ Count(e.stack[MainThread][c], x) = Count(q, x) + 1
                /\ Count(e.classwide[MainThread], x) = Count(w, x) + 1
           /\ (HasThreadLocal(c) /\ q # <<>> /\ Last(q) = x
                                 /\ w # <<>> /\ Last(w) = x) =>
                /\ l.out = Returned(None)
                /\ CurrentResult(l.stack, l.classwide, MainThread, c).out
                        = Returned(x)
                /\ GetCurrentContextResult(l.stack, l.classwide, MainThread,
                                           NoFilter).out = Returned(x)
                /\ m.out = Returned(None)
                /\ Count(m.stack[MainThread][c], x) = Count(q, x) - 1
                /\ Count(m.classwide[MainThread], x) = Count(w, x) - 1

\* Reached: a1 was entered twice with no exit between; it is twice on the
\* stack of A and on the class-wide stack.
C18_Witness ==
    /\ Queue(stack[MainThread]["A"]) = <<"a1", "a1">>
    /\ Queue(classwide[MainThread]) = <<"a1", "a1">>
    /\ entered[MainThread]["a1"] = 2
    /\ ret = Returned("a1")

\* C20: the base class has no stack of its own.  ScopedContext.current(),
\* ScopedContext.context_stack() and __enter__ and __exit__ on a direct
\* instance of ScopedContext raise AttributeError, not NoContextError, and
\* leave the class-wide stack and every per-class stack as they are; for
\* every subclass the first access on a thread creates its stack empty, on
\* that thread alone, and current() on it raises NoContextError.
C20_BaseClassHasNoStack ==
    /\ \A r \in { CurrentResult(stack, classwide, MainThread, "ScopedContext"),
                  ContextStackResult(stack, classwide, MainThread,
                                     "ScopedContext"),
                  EnterResult(stack, classwide, MainThread, "s1"),
                  ExitResult(stack, classwide, MainThread, "s1") } :
            /\ r.out = Raised("AttributeError")
            /\ r.out # Raised("NoContextError")
            /\ Held(r.stack, r.classwide, MainThread) = Contents(MainThread)
            /\ classwide[MainThread] = NoStack =>
                    r.classwide[MainThread] = NoStack
    /\ \A t \in Threads, c \in StackClasses :
            stack[t][c] = NoStack =>
                LET r == CurrentResult(stack, classwide, t, c)
                    l == ContextStackResult(stack, classwide, t, c)
                IN /\ r.stack[t][c] = <<>>
                   /\ r.out = Raised("NoContextError")
                   /\ l.stack[t][c] = <<>>
                   /\ ListOf(l) = <<>>
                   /\ \A u \in Threads \ {t} :
                        /\ r.stack[u][c] = stack[u][c]
                        /\ l.stack[u][c] = stack[u][c]
                   /\ \A u \in Threads :
                        /\ Held(r.stack, r.classwide, u) = Contents(u)
                        /\ Held(l.stack, l.classwide, u) = Contents(u)

\* Reached: with a1 open, a call on ScopedContext itself or on the direct
\* instance s1 raised AttributeError; a1 is still the one entry of the
\* class-wide stack, and the stack of C has not been created on the thread.
C20_Witness ==
    /\ ret = Raised("AttributeError")
    /\ Queue(classwide[MainThread]) = <<"a1">>
    /\ Queue(stack[MainThread]["A"]) = <<"a1">>
    /\ stack[MainThread]["C"] = NoStack
    /\ entered[MainThread]["s1"] = 0

\* C19: tasks of one thread share the stacks.  With two tasks run by one
\* thread and switched inside open with-blocks, every lookup gives both
\* tasks the same result, so that a context one task entered is what
\* C.current() and get_current_context() return in the other; and the
\* __exit__ at the end of a task's block removes the top entry of the
\* class-wide stack also when that is a context the other task entered
\* later and still has open, the task's own context then staying on that
\* stack as often as it was there.
C19_TasksShareStacks ==
    /\ \A c \in StackClasses :
            CurrentResult(stack, classwide, "k1", c).out
                = CurrentResult(stack, classwide, "k2", c).out
    /\ \A F \in Filters :
            GetCurrentContextResult(stack, classwide, "k1", F).out
                = GetCurrentContextResult(stack, classwide, "k2", F).out
    /\ \A k \in Tasks :
        LET w == Contents(k).cw IN
        /\ w # <<>> =>
            GetCurrentContextResult(stack, classwide, k, NoFilter).out
                = Returned(Last(w))
        /\ \A c \in StackClasses :
            Contents(k).st[c] # <<>> =>
                CurrentResult(stack, classwide, k, c).out
                    = Returned(Last(Contents(k).st[c]))
        /\ scopes[k] # <<>> =>
            LET x == Last(scopes[k]).ctx
                l == ExitResult(stack, classwide, k, x)
                v == Held(l.stack, l.classwide, k).cw
            IN /\ l.out = Returned(None)
               /\ w = Append(v, Last(w))
               /\ \A j \in Tasks \ {k} :
                    (/\ scopes[j] # <<>>
                     /\ Last(w) = Last(scopes[j]).ctx
                     /\ Last(w) # x) =>
                        /\ Count(v, Last(w)) = Count(w, Last(w)) - 1
                        /\ Count(v, x) = Count(w, x)

\* Reached: task k1 entered a1, task k2 then entered c1, and the block of k1
\* ended first: its __exit__ removed c1 from the class-wide stack, where a1
\* is left; in k2, whose block of c1 is still open, get_current_context()
\* gives a1.
C19_Witness ==
    /\ scopes["k1"] = <<>>
    /\ OpenContexts("k2") = <<"c1">>
    /\ Last(scopes["k2"]).before.cw = <<"a1">>
    /\ Queue(classwide["t1"]) = <<"a1">>
    /\ Queue(stack["t1"]["A"]) = <<>>
    /\ Queue(stack["t1"]["C"]) = <<"c1">>
    /\ GetCurrentContextResult(stack, classwide, "k2", NoFilter).out
            = Returned("a1")
    /\ ret = Returned(None)
====
